---- MODULE Spec2Model ----
(***************************************************************************)
(* The frame pipeline of src/main.rs: a GameState record updated by six    *)
(* logic functions that the engine calls, in registration order, once per  *)
(* frame.                                                                  *)
(*                                                                         *)
(* Units.  Time is counted in ticks of half a second, so the spawn range   *)
(* 1.5..3.5 s is 3..7 ticks.  The two f32 fields that change by            *)
(* rate * delta (health, direction) are stored doubled, so that            *)
(* RATE * delta with delta in ticks is the exact change; health 100.0 is   *)
(* 200.  speed changes by ACCELERATION whatever delta is and is stored as  *)
(* it is.  Within the bounds below every value is an integer far below     *)
(* 2^24, where f32 addition of these amounts is exact.                     *)
(* Sprite coordinates are in thousandths of a pixel.                       *)
(***************************************************************************)
EXTENDS Integers, Sequences, FiniteSets, TLC

\* ---------------------------------------------------------------- bounds
MaxDelta == 1    \* longest frame, in ticks
MaxSpeed == 1    \* |speed| stays within MaxSpeed accelerations
MaxTurn == 1     \* |direction| stays within MaxTurn ticks of rotation
MaxDrain == 2    \* health loses at most MaxDrain ticks of damage
MaxHits == 3     \* score counts at most MaxHits enemy hits
MaxEvents == 2   \* longest collision queue of a frame
MaxTime == 2     \* latest clock reading, in ticks

\* ------------------------------------------------------ program constants
ACCELERATION == 10
ROTATION_SPEED == 5
HIT_RATE == 10
SCORE_STEP == 10
INITIAL_HEALTH == 200      \* 100.0, doubled
SPAWN_LOW == 3             \* 1.5 s
SPAWN_HIGH == 7            \* 3.5 s

\* ----------------------------------------------------------------- labels
\* A label is the sequence of its tokens, so that starts_with is a real
\* prefix test.
PLAYER == <<"player">>
TRACK_INNER == <<"track", "_", "inner">>
TRACK_OUTER == <<"track", "_", "outer">>
ENEMY_1 == <<"enemy", "_", "1">>
ENEMY_2 == <<"enemy", "_", "2">>

starts_with(s, prefix) ==
    /\ Len(prefix) <= Len(s)
    /\ SubSeq(s, 1, Len(prefix)) = prefix

\* CollisionPair::one_starts_with
one_starts_with(pair, prefix) ==
    starts_with(pair[1], prefix) \/ starts_with(pair[2], prefix)

\* ------------------------------------------------------------------ state
VARIABLES
    health, direction, speed, score, spawn_timer, player_hit, enemies,
    sprites, keyboard_state, collision_events, delta, time_since_startup,
    texts, event_buffer, stage, ran, console, sfx

game_state == <<health, direction, speed, score, spawn_timer, player_hit, enemies>>
engine == <<sprites, keyboard_state, collision_events, delta, time_since_startup,
            texts>>
vars == <<health, direction, speed, score, spawn_timer, player_hit, enemies,
          sprites, keyboard_state, collision_events, delta, time_since_startup,
          texts, event_buffer, stage, ran, console, sfx>>

\* Timer::from_seconds(d, false)
Timer_from_seconds(d) == [duration |-> d, elapsed |-> 0, finished |-> FALSE,
                          just_finished |-> FALSE]

\* Timer::tick of a non-repeating timer
Timer_tick(t, dt) ==
    IF t.finished
    THEN [t EXCEPT !.just_finished = FALSE]
    ELSE LET e == t.elapsed + dt
             f == e >= t.duration
         IN [duration |-> t.duration,
             elapsed |-> IF f THEN t.duration ELSE e,
             finished |-> f,
             just_finished |-> f]

\* thread_rng().gen_range(1.5..3.5): a half-open range
gen_range_upper_inclusive == SPAWN_LOW..SPAWN_HIGH
gen_range == SPAWN_LOW..(SPAWN_HIGH - 1)

\* The logic functions in the order main registers them.
logics_swapped == <<"player_movement_logic", "enemy_movement_logic", "scoring_logic",
                    "collision_logic", "enemy_spawn_logic", "hud_logic">>
logics == <<"player_movement_logic", "enemy_movement_logic", "collision_logic",
            "scoring_logic", "enemy_spawn_logic", "hud_logic">>

initial_enemies ==
    << [label |-> ENEMY_1, position |-> <<-150, 300>>, direction |-> "UP",
        amplitude |-> 20],
       [label |-> ENEMY_2, position |-> <<0, -300>>, direction |-> "LEFT",
        amplitude |-> 50] >>

initial_sprites ==
    (TRACK_INNER :> [collision |-> TRUE, layer |-> 0])
    @@ (TRACK_OUTER :> [collision |-> TRUE, layer |-> 0])
    @@ (PLAYER :> [collision |-> TRUE, layer |-> 100, rotation |-> 0])

Init ==
    /\ health = INITIAL_HEALTH
    /\ direction = 0
    /\ speed = 0
    /\ score = 0
    /\ spawn_timer = Timer_from_seconds(0)
    /\ player_hit = FALSE
    /\ enemies = initial_enemies
    /\ sprites = initial_sprites
    /\ keyboard_state = {}
    /\ collision_events = <<>>
    /\ delta = 0
    /\ time_since_startup = 0
    /\ texts = [speed |-> <<>>, score |-> <<>>, health |-> <<>>]
    /\ event_buffer = <<>>
    /\ stage = 0
    /\ ran = <<>>
    /\ console = <<>>
    /\ sfx = <<>>

\* ------------------------------------------------------- player movement
Keys == {"Up", "Down", "Left", "Right"}

speed_scaled_by_delta(s, keys) ==
    LET up == IF "Up" \in keys THEN s + ACCELERATION * delta ELSE s
    IN IF "Down" \in keys THEN up - ACCELERATION * delta ELSE up
speed_after(s, keys) ==
    LET up == IF "Up" \in keys THEN s + ACCELERATION ELSE s
    IN IF "Down" \in keys THEN up - ACCELERATION ELSE up

direction_else_if(d, keys, dt) ==
    IF "Left" \in keys THEN d + ROTATION_SPEED * dt
    ELSE IF "Right" \in keys THEN d - ROTATION_SPEED * dt ELSE d
direction_after(d, keys, dt) ==
    LET left == IF "Left" \in keys THEN d + ROTATION_SPEED * dt ELSE d
    IN IF "Right" \in keys THEN left - ROTATION_SPEED * dt ELSE left

\* -------------------------------------------------------- enemy movement
\* cos and sin of the two directions the enemies have. In f32 cos(UP) and
\* sin(LEFT) are about 1e-8 in size; times the amplitude and added to an
\* anchor coordinate of 150 or 300 the term is below half an ulp and the sum
\* is the anchor coordinate.
dir_cos(d) == IF d = "LEFT" THEN -1 ELSE 0
dir_sin(d) == IF d = "UP" THEN 1 ELSE 0

\* 1000 * sin(t / 2), rounded, for the clock readings t = 0, 1, ... ticks
sin_table == <<0, 479, 841, 997, 909, 598, 141, -351, -757, -978>>
sin_milli(t) == sin_table[t + 1]

new_enemy_sprite == [collision |-> TRUE, layer |-> 1, translation |-> <<0, 0>>]

enemy_sprite_accumulating(sp, enemy, t) ==
    LET s == IF enemy.label \in DOMAIN sp THEN sp[enemy.label] ELSE new_enemy_sprite
    IN [s EXCEPT !.translation =
           << s.translation[1] + 1000 * enemy.position[1]
                + dir_cos(enemy.direction) * enemy.amplitude * sin_milli(t),
              s.translation[2] + 1000 * enemy.position[2]
                + dir_sin(enemy.direction) * enemy.amplitude * sin_milli(t) >>]
enemy_sprite(sp, enemy, t) ==
    LET s == IF enemy.label \in DOMAIN sp THEN sp[enemy.label] ELSE new_enemy_sprite
    IN [s EXCEPT !.translation =
           << 1000 * enemy.position[1]
                + dir_cos(enemy.direction) * enemy.amplitude * sin_milli(t),
              1000 * enemy.position[2]
                + dir_sin(enemy.direction) * enemy.amplitude * sin_milli(t) >>]

RECURSIVE move_enemies(_, _, _)
move_enemies(sp, es, t) ==
    IF es = <<>> THEN sp
    ELSE LET e == Head(es)
         IN move_enemies((e.label :> enemy_sprite(sp, e, t)) @@ sp, Tail(es), t)

\* ------------------------------------------------------------- collisions
is_inner(ev) ==
    one_starts_with(ev.pair, TRACK_INNER) /\ one_starts_with(ev.pair, PLAYER)
is_outer(ev) ==
    one_starts_with(ev.pair, TRACK_OUTER) /\ one_starts_with(ev.pair, PLAYER)

\* player_hit after one iteration of the loop of collision_logic
collision_event_symmetric(hit, ev) ==
    IF is_inner(ev) \/ is_outer(ev) THEN ev.state = "Begin" ELSE hit
collision_event(hit, ev) ==
    LET inner == IF is_inner(ev) THEN ev.state = "Begin" ELSE hit
    IN IF is_outer(ev) THEN ev.state = "End" ELSE inner

RECURSIVE collision_fold(_, _)
collision_fold(hit, q) ==
    IF q = <<>> THEN hit
    ELSE collision_fold(collision_event(hit, Head(q)), Tail(q))

\* The line collision_logic prints for an event.
collision_line(ev) == <<"Collision between", ev.pair[1], ev.pair[2], ev.state>>
collision_lines(q) == [i \in 1..Len(q) |-> collision_line(q[i])]

impact(ev) ==
    \/ is_inner(ev) /\ ev.state = "Begin"
    \/ is_outer(ev) /\ ev.state = "End"

RECURSIVE collision_sfx(_)
collision_sfx(q) ==
    IF q = <<>> THEN <<>>
    ELSE (IF impact(Head(q)) THEN <<"Impact1">> ELSE <<>>) \o collision_sfx(Tail(q))

\* ----------------------------------------------------------------- scoring
is_enemy_hit_any_state(ev) ==
    /\ one_starts_with(ev.pair, <<"enemy">>)
    /\ one_starts_with(ev.pair, PLAYER)
is_enemy_hit(ev) ==
    /\ one_starts_with(ev.pair, <<"enemy">>)
    /\ one_starts_with(ev.pair, PLAYER)
    /\ ev.state = "Begin"

RECURSIVE score_fold(_, _)
score_fold(s, q) ==
    IF q = <<>> THEN s
    ELSE score_fold(IF is_enemy_hit(Head(q)) THEN s + SCORE_STEP ELSE s, Tail(q))

RECURSIVE scoring_sfx(_)
scoring_sfx(q) ==
    IF q = <<>> THEN <<>>
    ELSE (IF is_enemy_hit(Head(q)) THEN <<"Confirmation1">> ELSE <<>>)
         \o scoring_sfx(Tail(q))

health_once(h, hit, dt) == IF hit /\ h = INITIAL_HEALTH THEN h - HIT_RATE * dt ELSE h
health_after(h, hit, dt) == IF hit THEN h - HIT_RATE * dt ELSE h

drained_by_reference(q) == q
drained(q) == <<>>

\* -------------------------------------------------------------- the frame
States == {"Begin", "End"}

\* The collision events the engine can deliver: pairs of sprites that exist
\* and have collision enabled.
deliverable(events) ==
    {ev \in events :
        \A i \in 1..2 : ev.pair[i] \in DOMAIN sprites /\ sprites[ev.pair[i]].collision}

Abs(x) == IF x < 0 THEN -x ELSE x

\* Between two frames the engine's collision detection writes the transitions
\* it finds to its event buffer. The last guard keeps score within the bound.
\* console and sfx hold what the last frame printed and played, until the
\* engine takes over again.
engine_collision(events) ==
    /\ stage = 0
    /\ Len(event_buffer) < MaxEvents
    /\ \E ev \in deliverable(events) :
        /\ event_buffer' = Append(event_buffer, ev)
        /\ score_fold(score, event_buffer') <= SCORE_STEP * MaxHits
    /\ console' = <<>>
    /\ sfx' = <<>>
    /\ UNCHANGED <<game_state, engine, stage, ran>>

\* The engine starts a frame: it sets the frame's delta and clock reading and
\* the keyboard snapshot, replaces collision_events by the buffered events,
\* then calls the logic functions. The clock never runs backwards. The three
\* guards after the clock's keep speed, direction and health within the bounds
\* of the model.
engine_frame(deltas, clock, keysets) ==
    /\ stage = 0
    /\ \E dt \in deltas, t \in clock, keys \in keysets :
        /\ t >= time_since_startup
        /\ Abs(speed_after(speed, keys)) <= ACCELERATION * MaxSpeed
        /\ Abs(direction_after(direction, keys, dt)) <= ROTATION_SPEED * MaxTurn
        /\ collision_fold(player_hit, event_buffer) =>
              health - HIT_RATE * dt >= INITIAL_HEALTH - HIT_RATE * MaxDrain
        /\ delta' = dt
        /\ time_since_startup' = t
        /\ keyboard_state' = keys
    /\ collision_events' = event_buffer
    /\ event_buffer' = <<>>
    /\ stage' = 1
    /\ ran' = <<>>
    /\ console' = <<>>
    /\ sfx' = <<>>
    /\ UNCHANGED <<game_state, sprites, texts>>

\* The engine calls logics[stage]; after the last one the frame is over.
call(name) ==
    /\ stage \in 1..Len(logics)
    /\ logics[stage] = name
    /\ stage' = IF stage = Len(logics) THEN 0 ELSE stage + 1
    /\ ran' = Append(ran, name)
    /\ UNCHANGED event_buffer

\* The translation of the player sprite (speed * delta * cos/sin of an
\* arbitrary angle) is read by no logic function and is not part of the state;
\* its rotation is.
player_movement_logic ==
    /\ call("player_movement_logic")
    /\ speed' = speed_after(speed, keyboard_state)
    /\ direction' = direction_after(direction, keyboard_state, delta)
    /\ sprites' = [sprites EXCEPT ![PLAYER].rotation = direction']
    /\ UNCHANGED <<health, score, spawn_timer, player_hit, enemies, keyboard_state,
                   collision_events, delta, time_since_startup, texts, console, sfx>>

enemy_movement_logic ==
    /\ call("enemy_movement_logic")
    /\ sprites' = move_enemies(sprites, enemies, time_since_startup)
    /\ UNCHANGED <<game_state, keyboard_state, collision_events, delta,
                   time_since_startup, texts, console, sfx>>

collision_logic ==
    /\ call("collision_logic")
    /\ player_hit' = collision_fold(player_hit, collision_events)
    /\ console' = console \o collision_lines(collision_events)
    /\ sfx' = sfx \o collision_sfx(collision_events)
    /\ UNCHANGED <<health, direction, speed, score, spawn_timer, enemies, engine>>

scoring_logic ==
    /\ call("scoring_logic")
    /\ health' = health_after(health, player_hit, delta)
    /\ score' = score_fold(score, collision_events)
    /\ sfx' = sfx \o scoring_sfx(collision_events)
    /\ collision_events' = drained(collision_events)
    /\ UNCHANGED <<direction, speed, spawn_timer, player_hit, enemies, sprites,
                   keyboard_state, delta, time_since_startup, texts, console>>

spawn_line == <<"Would spawn enemy">>

spawned_enemies_pushed(es) ==
    Append(es, [label |-> <<"enemy", "_", "3">>, position |-> <<0, 0>>,
                direction |-> "UP", amplitude |-> 20])
spawned_enemies(es) == es

enemy_spawn_logic ==
    /\ call("enemy_spawn_logic")
    /\ LET ticked == Timer_tick(spawn_timer, delta)
       IN IF ticked.just_finished
          THEN /\ \E d \in gen_range : spawn_timer' = Timer_from_seconds(d)
               /\ enemies' = spawned_enemies(enemies)
               /\ console' = Append(console, spawn_line)
          ELSE /\ spawn_timer' = ticked
               /\ UNCHANGED <<enemies, console>>
    /\ UNCHANGED <<health, direction, speed, score, player_hit, engine, sfx>>

\* `health as i32`: health is stored doubled, the cast truncates toward zero.
as_i32(h) == IF h >= 0 THEN h \div 2 ELSE -((-h) \div 2)

\* The values of the three text labels, each the sequence of its parts ("" is
\* the empty sequence); their positions depend on the window alone and are
\* not part of the state.
hud_logic ==
    /\ call("hud_logic")
    /\ texts' = [speed |-> <<"Speed", speed>>,
                 score |-> <<"Score", score>>,
                 health |-> <<"Health", as_i32(health)>>]
    /\ UNCHANGED <<game_state, sprites, keyboard_state, collision_events, delta,
                   time_since_startup, console, sfx>>

logic ==
    \/ player_movement_logic
    \/ enemy_movement_logic
    \/ collision_logic
    \/ scoring_logic
    \/ enemy_spawn_logic
    \/ hud_logic

\* ---------------------------------------------------------- specifications
KeySets == SUBSET Keys
Deltas == 0..MaxDelta
Clock == 0..MaxTime

event(a, b, st) == [pair |-> <<a, b>>, state |-> st]

TrackEvents ==
    {event(PLAYER, TRACK_INNER, st) : st \in States}
    \cup {event(TRACK_OUTER, PLAYER, st) : st \in States}
    \cup {event(ENEMY_1, TRACK_INNER, st) : st \in States}

EnemyEvents ==
    {event(PLAYER, ENEMY_1, st) : st \in States}
    \cup {event(ENEMY_2, PLAYER, "Begin"), event(ENEMY_1, ENEMY_2, "Begin"),
          event(ENEMY_2, TRACK_OUTER, "Begin")}

\* Driving: any keys, any delta, any clock reading, nothing collides.
DriveFrame == engine_frame(Deltas, Clock, KeySets)
Next == DriveFrame \/ logic
Spec == Init /\ [][Next]_vars

\* The player against the track edges.
TrackCollision == engine_collision(TrackEvents)
TrackFrame == engine_frame(Deltas, {0}, {{}})
NextTrack == TrackCollision \/ TrackFrame \/ logic
SpecTrack == Init /\ [][NextTrack]_vars

\* The player against the enemies.
EnemyCollision == engine_collision(EnemyEvents)
EnemyFrame == engine_frame(Deltas, {0}, {{}})
NextEnemy == EnemyCollision \/ EnemyFrame \/ logic
SpecEnemy == Init /\ [][NextEnemy]_vars

\* Frames of positive delta, one after the other without end.
TimerFrame == engine_frame(1..(MaxDelta + 1), Clock, {{}})
NextTimer == TimerFrame \/ logic
SpecTimer == Init /\ [][NextTimer]_vars /\ WF_vars(NextTimer)

\* ------------------------------------------------------------- properties
\* The logic function the engine calls next.
Running(name) == stage \in 1..Len(logics) /\ logics[stage] = name

contains(pair, label) == pair[1] = label \/ pair[2] = label

\* player_hit after the first k events of the frame's queue
hit_after(k) == collision_fold(player_hit, SubSeq(collision_events, 1, k))

C1_EventEffect(k) ==
    LET ev == collision_events[k]
    IN IF contains(ev.pair, PLAYER) /\ contains(ev.pair, TRACK_INNER)
       THEN hit_after(k) = (ev.state = "Begin")
       ELSE IF contains(ev.pair, PLAYER) /\ contains(ev.pair, TRACK_OUTER)
       THEN hit_after(k) = (ev.state = "End")
       ELSE hit_after(k) = hit_after(k - 1)

\* C1: in collision_logic an event of the player and the inner track edge
\* sets player_hit on Begin and clears it on End, an event of the player and
\* the outer track edge clears it on Begin and sets it on End, and an event
\* of any other pair leaves it as it was; player_hit after the stage is its
\* value after the last event.
C1_CollisionSetsHit ==
    [][Running("collision_logic") =>
         /\ \A k \in 1..Len(collision_events) : C1_EventEffect(k)
         /\ player_hit' = hit_after(Len(collision_events))]_vars

\* An inner Begin set the flag and the outer Begin after it cleared it.
C1_Witness ==
    /\ Running("scoring_logic")
    /\ collision_events = <<event(PLAYER, TRACK_INNER, "Begin"),
                            event(TRACK_OUTER, PLAYER, "Begin")>>
    /\ ~player_hit

\* C2 as stated: with player_hit set, scoring_logic leaves health strictly
\* lower, by HIT_RATE times the frame delta; with it clear, health is
\* unchanged; no other stage changes health.
C2_StrictDrain ==
    [][/\ Running("scoring_logic") /\ player_hit =>
            health' < health /\ health' = health - HIT_RATE * delta
       /\ Running("scoring_logic") /\ ~player_hit => health' = health
       /\ ~Running("scoring_logic") => health' = health]_vars

\* C2, amended: with player_hit set, scoring_logic lowers health by exactly
\* HIT_RATE times the frame delta, which is strictly lower when the delta is
\* positive and the same health when the delta is zero; with it clear,
\* health is unchanged; no other stage changes health.
C2_Drain ==
    [][/\ Running("scoring_logic") /\ player_hit =>
            /\ health' = health - HIT_RATE * delta
            /\ delta > 0 => health' < health
            /\ delta = 0 => health' = health
       /\ Running("scoring_logic") /\ ~player_hit => health' = health
       /\ ~Running("scoring_logic") => health' = health]_vars

\* Two frames of one tick each have drained health, with the flag still set.
C2_Witness ==
    /\ Running("enemy_spawn_logic")
    /\ player_hit
    /\ delta = 1
    /\ health = INITIAL_HEALTH - 2 * HIT_RATE

\* The Begin events of the player and an enemy in a queue.
enemy_begins(q) ==
    Cardinality({i \in 1..Len(q) :
        /\ q[i].state = "Begin"
        /\ contains(q[i].pair, PLAYER)
        /\ contains(q[i].pair, ENEMY_1) \/ contains(q[i].pair, ENEMY_2)})

\* C3: scoring_logic adds to score 10 for each Begin event of the player and
\* an enemy in the frame's queue, whatever came before, and nothing for any
\* other event; no other stage changes score.
C3_ScorePerBegin ==
    [][/\ Running("scoring_logic") =>
            score' = score + SCORE_STEP * enemy_begins(collision_events)
       /\ ~Running("scoring_logic") => score' = score]_vars

\* The same pair began twice in this frame, after a hit in an earlier frame.
C3_Witness ==
    /\ Running("enemy_spawn_logic")
    /\ console = <<collision_line(event(PLAYER, ENEMY_1, "Begin")),
                   collision_line(event(PLAYER, ENEMY_1, "Begin"))>>
    /\ score = 3 * SCORE_STEP

stage_order == <<"player_movement_logic", "enemy_movement_logic", "collision_logic",
                 "scoring_logic", "enemy_spawn_logic", "hud_logic">>

\* C4: the stages of a frame run one at a time in the order player movement,
\* enemy movement, collision handling, scoring, spawn timer, HUD: what has run
\* in the frame in progress is the first stage - 1 entries of that order, and
\* a frame is over (and the next can start) only when all six have run, each
\* once.
C4_StageOrder ==
    /\ stage \in 0..6
    /\ stage >= 1 => ran = SubSeq(stage_order, 1, stage - 1)
    /\ stage = 0 => ran = <<>> \/ ran = stage_order

\* A second frame is under way after a complete first one.
C4_Witness ==
    /\ texts.speed # <<>>
    /\ stage = 4
    /\ ran = <<"player_movement_logic", "enemy_movement_logic", "collision_logic">>

\* C5: whatever the frame delta, player_movement_logic with Up pressed and
\* Down not pressed leaves speed strictly greater, and no other stage changes
\* speed, so that speed strictly increases from frame to frame while only the
\* accelerate key is held.
C5_SpeedIncreases ==
    [][/\ ( /\ Running("player_movement_logic")
            /\ "Up" \in keyboard_state
            /\ "Down" \notin keyboard_state ) => speed' > speed
       /\ ~Running("player_movement_logic") => speed' = speed]_vars

\* In a later frame of delta zero, with Up alone held, speed went from 0 to
\* ACCELERATION.
C5_Witness ==
    /\ Running("enemy_movement_logic")
    /\ keyboard_state = {"Up"}
    /\ delta = 0
    /\ speed = ACCELERATION
    /\ texts.speed = <<"Speed", 0>>

C6_Turn ==
    IF "Left" \in keyboard_state /\ "Right" \notin keyboard_state
    THEN ROTATION_SPEED * delta
    ELSE IF "Right" \in keyboard_state /\ "Left" \notin keyboard_state
    THEN -(ROTATION_SPEED * delta)
    ELSE 0

first_position(e, t) == enemy_sprite(initial_sprites, e, t).translation

\* C8: the position enemy_movement_logic gives an enemy's sprite is the one a
\* first run at the same clock reading gives, whatever the sprite table held
\* before, and running the stage again at that reading changes nothing.
C8_EnemyPosition ==
    [][Running("enemy_movement_logic") =>
         /\ \A i \in 1..Len(initial_enemies) :
               sprites'[initial_enemies[i].label].translation
                  = first_position(initial_enemies[i], time_since_startup)
         /\ move_enemies(sprites', enemies, time_since_startup) = sprites']_vars

\* In a later frame the sprite of enemy_2 is where the clock reading 2 puts it.
C8_Witness ==
    /\ Running("collision_logic")
    /\ texts.speed # <<>>
    /\ time_since_startup = 2
    /\ sprites[ENEMY_2].translation = <<-42050, -300000>>
    /\ sprites[ENEMY_1].translation = <<-150000, 316820>>

enemy_labels == {ENEMY_1, ENEMY_2}
startup_labels == {PLAYER, TRACK_INNER, TRACK_OUTER}
first_frame == texts.speed = <<>>

\* C9: the enemy collection is always the two records of startup; no enemy
\* sprite exists before the first enemy-movement stage; after it each enemy
\* has its sprite, with collision enabled, under its label; the sprite table
\* holds the three startup sprites and at most one per enemy; and once the
\* enemy sprites exist no stage adds a sprite.
C9_EnemiesFixed ==
    /\ [](/\ enemies = initial_enemies
          /\ startup_labels \subseteq DOMAIN sprites
          /\ DOMAIN sprites \subseteq startup_labels \cup enemy_labels
          /\ Cardinality(DOMAIN sprites) <= 3 + Len(enemies)
          /\ first_frame /\ stage \in 0..2 => DOMAIN sprites = startup_labels
          /\ ~first_frame \/ stage \in 3..6 =>
                \A l \in enemy_labels : l \in DOMAIN sprites /\ sprites[l].collision)
    /\ [][enemy_labels \subseteq DOMAIN sprites => DOMAIN sprites' = DOMAIN sprites]_vars

\* The spawn timer has elapsed in a later frame; there are two enemies and
\* five sprites.
C9_Witness ==
    /\ ~first_frame
    /\ Running("hud_logic")
    /\ console = <<spawn_line>>
    /\ Len(enemies) = 2
    /\ Cardinality(DOMAIN sprites) = 5

\* The spawn timer has elapsed in the frame in progress or just over.
fired == \E i \in 1..Len(console) : console[i] = spawn_line

\* The parts of C7 about when the timer fires: the spawn stage fires exactly
\* when the delta accumulated since the timer was set reaches its duration,
\* and otherwise only adds the delta; the zero-duration timer of startup fires
\* in the first frame; over frames of positive delta the timer fires again and
\* again; the timer that replaces an elapsed one is unstarted.
C7_Cadence ==
    /\ [](fired => spawn_timer.elapsed = 0 /\ ~spawn_timer.finished)
    /\ [][Running("enemy_spawn_logic") =>
            /\ fired' <=> spawn_timer.elapsed + delta >= spawn_timer.duration
            /\ ~fired' => spawn_timer' = [spawn_timer EXCEPT !.elapsed = @ + delta]]_vars
    /\ [](spawn_timer.duration = 0 => first_frame /\ ~fired)
    /\ [](~first_frame \/ stage = 6 => spawn_timer.duration # 0)
    /\ []<>fired
    /\ []<>(~fired)

\* C7 as stated: the timer that replaces an elapsed one has a duration
\* strictly between 1.5 and 3.5 seconds, and the timer fires as C7_Cadence
\* says.
C7_StrictlyWithin ==
    /\ [](fired =>
            SPAWN_LOW < spawn_timer.duration /\ spawn_timer.duration < SPAWN_HIGH)
    /\ C7_Cadence

\* C7, amended: the timer that replaces an elapsed one has a duration d with
\* 1.5 s <= d < 3.5 s (the lower end of the range can be drawn, the upper end
\* cannot), and the timer fires as C7_Cadence says.
C7_SpawnTimer ==
    /\ [](fired =>
            SPAWN_LOW <= spawn_timer.duration /\ spawn_timer.duration < SPAWN_HIGH)
    /\ C7_Cadence

\* The timer has fired in a later frame and the new duration is 1.5 s.
C7_Witness ==
    /\ ~first_frame
    /\ fired
    /\ spawn_timer.duration = SPAWN_LOW

\* The sounds scoring_logic plays for a queue: one per Begin of player and enemy.
confirmations(q) == [i \in 1..enemy_begins(q) |-> "Confirmation1"]

\* C10: collision_logic leaves the queue as it is and handles each event
\* once, in order (it prints one line per event); scoring_logic handles each
\* event once (one sound per scoring event) and leaves the queue empty; the
\* queue is empty from then until the engine starts the next frame, which
\* gives the frame the newly detected events alone.
C10_QueueDrained ==
    /\ [](Running("enemy_spawn_logic") \/ Running("hud_logic") \/ stage = 0 =>
             collision_events = <<>>)
    /\ [][/\ Running("collision_logic") =>
               /\ collision_events' = collision_events
               /\ console' = console \o collision_lines(collision_events)
          /\ Running("scoring_logic") =>
               /\ collision_events' = <<>>
               /\ sfx' = sfx \o confirmations(collision_events)
          /\ stage = 0 /\ stage' = 1 => collision_events' = event_buffer
          /\ ~Running("scoring_logic") /\ stage # 0 =>
               collision_events' = collision_events]_vars

\* Two events were delivered, printed and scored, and the queue is empty.
C10_Witness ==
    /\ Running("enemy_spawn_logic")
    /\ console = <<collision_line(event(PLAYER, ENEMY_1, "Begin")),
                   collision_line(event(ENEMY_2, PLAYER, "Begin"))>>
    /\ sfx = <<"Confirmation1", "Confirmation1">>
    /\ collision_events = <<>>

====
